---- MODULE Spec2Model ----
(***************************************************************************)
(* Model of the deployment reporter (src/main.go): a CI step that parses   *)
(* a repository URL, POSTs a "create deployment" request and then a       *)
(* "create deployment status" request for the identifier returned by the  *)
(* first call.  The program is sequential; pc is its position.  Strings    *)
(* that the code takes apart (the repository URL) are sequences of         *)
(* one-character strings; strings the code only compares or copies are     *)
(* TLA+ strings.                                                           *)
(***************************************************************************)
EXTENDS Integers, Sequences, FiniteSets, TLC

VARIABLES cfg, buildStatus, pc, req1, req2, resp1, resp2, deploymentId,
          err, exitCode, trace

vars == <<cfg, buildStatus, pc, req1, req2, resp1, resp2, deploymentId,
          err, exitCode, trace>>

(***************************************************************************)
(* Bounds of the model.                                                    *)
(***************************************************************************)
\* longest owner / repository name drawn from NameChars
MaxNameLen == 1
\* deployment identifiers a server answers with are 1..MaxId
MaxId == 2

(***************************************************************************)
(* String helpers (Go's strings package), on sequences of characters.      *)
(***************************************************************************)
HasPrefix(s, p) == Len(s) >= Len(p) /\ SubSeq(s, 1, Len(p)) = p

HasSuffix(s, p) == Len(s) >= Len(p) /\ SubSeq(s, Len(s) - Len(p) + 1, Len(s)) = p

TrimPrefix(s, p) == IF HasPrefix(s, p) THEN SubSeq(s, Len(p) + 1, Len(s)) ELSE s

TrimSuffix(s, p) == IF HasSuffix(s, p) THEN SubSeq(s, 1, Len(s) - Len(p)) ELSE s

\* the separator predicate a bug would write when only the https form is handled
IsDelimSlashOnly(r) == r = "/"

\* the predicate handed to strings.FieldsFunc
IsDelim(r) == r = "/" \/ r = ":"

RECURSIVE FieldsAcc(_, _, _)
FieldsAcc(s, cur, acc) ==
    IF s = <<>>
    THEN IF cur = <<>> THEN acc ELSE Append(acc, cur)
    ELSE IF IsDelim(Head(s))
         THEN FieldsAcc(Tail(s), <<>>, IF cur = <<>> THEN acc ELSE Append(acc, cur))
         ELSE FieldsAcc(Tail(s), Append(cur, Head(s)), acc)

\* strings.FieldsFunc: maximal runs of non-separator characters, never empty
FieldsFunc(s) == FieldsAcc(s, <<>>, <<>>)

HttpsPrefix == <<"h", "t", "t", "p", "s", ":", "/", "/">>

GitAtPrefix == <<"g", "i", "t", "@">>

DotGit == <<".", "g", "i", "t">>

\* the segments ownerAndRepo indexes into
urlSegments(url) == FieldsFunc(TrimPrefix(TrimPrefix(url, HttpsPrefix), GitAtPrefix))

\* ownerAndRepo: a[1] and a[2] of the segments (0-based); indexing past the
\* end of the slice is a Go runtime panic
ownerAndRepo(url) ==
    LET a == urlSegments(url)
    IN  IF Len(a) < 3
        THEN [panic |-> TRUE, owner |-> <<>>, repo |-> <<>>]
        ELSE [panic |-> FALSE, owner |-> a[2], repo |-> TrimSuffix(a[3], DotGit)]

(***************************************************************************)
(* State and description.                                                  *)
(***************************************************************************)
\* a getState that treats only the signal "1" as a failed build
getStateOnlyOneFails(preset, signal) ==
    IF preset # "auto" THEN preset
    ELSE IF signal # "1" THEN "success" ELSE "failure"

\* getState; signal is os.Getenv("BITRISE_BUILD_STATUS"), "" when unset
getState(preset, signal) ==
    IF preset # "auto" THEN preset
    ELSE IF signal = "0" THEN "success" ELSE "failure"

\* strings.Title on the words that can reach it: first letter upper-cased
Title(s) ==
    CASE s = "success" -> "Success"
      [] s = "failure" -> "Failure"
      [] s = "pending" -> "Pending"
      [] s = "error"   -> "Error"
      [] s = "auto"    -> "Auto"
      [] OTHER         -> s

\* getDescription: the title-cased state is computed and dropped, desc is
\* returned on both branches
getDescription(desc, state, signal) ==
    LET discarded == IF desc = "" THEN Title(getState(state, signal)) ELSE ""
    IN  desc

(***************************************************************************)
(* HTTP helpers.                                                           *)
(***************************************************************************)
\* a dump condition that forgets the non-201 half
shouldDumpVerboseOnly(resp, verbose) == verbose

\* resp.StatusCode != 201 || cfg.Verbose
shouldDump(resp, verbose) == resp.status # 201 \/ verbose

\* a status check that lets every 2xx through
unexpectedStatusNon2xx(resp) == resp.status < 200 \/ resp.status > 299

\* resp.StatusCode != 201
unexpectedStatus(resp) == resp.status # 201

\* a deferred close that was left out
closeBodyMissing(resp) == resp

\* the deferred resp.Body.Close(): closes the body received from the network,
\* or, after a dump, the in-memory copy that replaced it (the received body
\* is closed already)
closeBody(resp) == IF resp.received THEN [resp EXCEPT !.closed = TRUE] ELSE resp

\* httpDump succeeding: httputil.DumpResponse(resp, true) drains the body,
\* closes the body received from the network and replaces resp.Body by an
\* in-memory copy
drainBody(resp) == [resp EXCEPT !.read = "read", !.closed = TRUE, !.swapped = TRUE]

\* json.Unmarshal into Response{Id int; Url string}: Id stays 0 unless the
\* body is a JSON object whose id is an integer; err is what Unmarshal returns
jsonUnmarshal(body) ==
    IF body.kind = "object"
    THEN [Id |-> body.id, err |-> FALSE]
    ELSE [Id |-> 0, err |-> body.kind # "noid"]

\* http.NewRequest fails when the URL built from api_base_url does not parse
newRequestOK(apiURL) == apiURL # "%zz"

(***************************************************************************)
(* Inputs: the environment the step reads, the answers of the server.      *)
(***************************************************************************)
NameChars == {"a", "b"}

RECURSIVE SeqsOfLen(_, _)
SeqsOfLen(S, n) ==
    IF n = 0 THEN {<<>>}
    ELSE {Append(t, c) : t \in SeqsOfLen(S, n - 1), c \in S}

\* non-empty owner / repository names free of '/' and ':'
Names == UNION {SeqsOfLen(NameChars, n) : n \in 1..MaxNameLen} \cup {DotGit}

\* hosts as they appear in repository URLs, one of them with a port
Hosts == {<<"h">>, <<"g", ".", "h">>, <<"h", ":", "8">>}

\* the hosts that are plain host names: non-empty, free of '/', ':' and '@'
PlainHosts ==
    {h \in Hosts : Len(h) > 0 /\ \A i \in 1..Len(h) : h[i] \notin {"/", ":", "@"}}

Users == {<<"g", "i", "t">>, <<"b">>}

HttpsURL(host, owner, repo) ==
    HttpsPrefix \o host \o <<"/">> \o owner \o <<"/">> \o repo \o DotGit

SshURL(user, host, owner, repo) ==
    user \o <<"@">> \o host \o <<":">> \o owner \o <<"/">> \o repo \o DotGit

\* URLs of the two supported forms; the scp-like form has no place for a port
WellFormedURLs ==
    {HttpsURL(h, o, r) : h \in Hosts, o \in Names, r \in Names}
    \cup UNION {{SshURL(u, h, o, r) : h \in PlainHosts, o \in Names} :
                    u \in Users, r \in Names}

\* repository URLs that match neither supported form
OtherURLs ==
    { <<"h">>,
      HttpsPrefix,
      HttpsPrefix \o <<"h", "/", "a">>,
      HttpsPrefix \o <<"h", "/", "/", "a">> \o DotGit,
      GitAtPrefix \o <<"h", ":", "a">>,
      <<"/", ":", "/">> }

StateOptions == {"auto", "pending", "success", "error", "failure"}

Signals == {"", "0", "1"}

Statuses == {200, 201, 422}

Bodies ==
    {[kind |-> "object", id |-> i] : i \in 1..MaxId}
    \cup {[kind |-> k, id |-> 0] : k \in {"noid", "strid", "garbage"}}

NoReq == [built |-> FALSE]

NoResp == [received |-> FALSE]

Config(token, url, hash, api, state, desc, verbose) ==
    [authToken |-> token, repositoryURL |-> url, commitHash |-> hash,
     apiURL |-> api, state |-> state, buildURL |-> "https://build/1",
     description |-> desc, verbose |-> verbose]

\* the environments of a whole run: every setting varies, few URLs
RunConfigs ==
    {Config(t, u, c, a, s, d, v) :
        t \in {"", "tok"},
        u \in OtherURLs \cup {<<>>, HttpsURL(<<"h">>, <<"a">>, <<"b">>),
                              SshURL(<<"g", "i", "t">>, <<"h">>, <<"a">>, <<"b">>)},
        c \in {"", "abc123"},
        a \in {"https://api.github.com", "%zz"},
        s \in StateOptions \cup {"bogus"},
        d \in {"", "custom text"},
        v \in BOOLEAN}

\* the environments of the parser study: every URL, one valid setting
ParserConfigs ==
    {Config("tok", u, "abc123", "https://api.github.com", "auto", "", FALSE) :
        u \in WellFormedURLs \cup OtherURLs}

Start ==
    /\ buildStatus \in Signals
    /\ pc = "main"
    /\ req1 = NoReq
    /\ req2 = NoReq
    /\ resp1 = NoResp
    /\ resp2 = NoResp
    /\ deploymentId = 0
    /\ err = "nil"
    /\ exitCode = -1
    /\ trace = <<>>

Init == cfg \in RunConfigs /\ Start

InitParser == cfg \in ParserConfigs /\ Start /\ buildStatus = "0"

Event(e, k) == [ev |-> e, call |-> k]

Panics == {"panic: index out of range", "panic: nil pointer dereference"}

(***************************************************************************)
(* The run, one action per step of main, createDeployment and              *)
(* createDeploymentStatus.                                                 *)
(***************************************************************************)
\* stepconf.Parse against the struct tags of config
configError(c) ==
    \/ c.authToken = ""
    \/ c.repositoryURL = <<>>
    \/ c.commitHash = ""
    \/ c.state \notin StateOptions

\* main, up to the call of createDeployment
Main ==
    /\ pc = "main"
    /\ IF configError(cfg)
       THEN /\ err' = "config"
            /\ exitCode' = 1
            /\ pc' = "done"
            /\ trace' = Append(trace, Event("stderr", 0))
       ELSE /\ pc' = "createDeployment"
            /\ UNCHANGED <<err, exitCode, trace>>
    /\ UNCHANGED <<cfg, buildStatus, req1, req2, resp1, resp2, deploymentId>>

\* createDeployment, up to the request being ready; a panic in ownerAndRepo
\* unwinds with no deferred call registered and ends the process with code 2
CreateDeployment ==
    /\ pc = "createDeployment"
    /\ LET or == ownerAndRepo(cfg.repositoryURL)
       IN  IF or.panic
           THEN /\ err' = "panic: index out of range"
                /\ exitCode' = 2
                /\ pc' = "done"
                /\ trace' = Append(trace, Event("stderr", 0))
                /\ UNCHANGED req1
           ELSE IF ~newRequestOK(cfg.apiURL)
           THEN /\ err' = "new request"
                /\ pc' = "exit"
                /\ UNCHANGED <<req1, exitCode, trace>>
           ELSE /\ req1' = [built |-> TRUE,
                            url |-> [base |-> cfg.apiURL, owner |-> or.owner,
                                     repo |-> or.repo, id |-> 0,
                                     tail |-> "deployments"],
                            auth |-> cfg.authToken,
                            payload |-> [ref |-> cfg.commitHash,
                                         environment |-> "staging",
                                         state |-> "",
                                         description |->
                                             getDescription(cfg.description, cfg.state,
                                                            buildStatus)]]
                /\ pc' = "do1"
                /\ UNCHANGED <<err, exitCode, trace>>
    /\ UNCHANGED <<cfg, buildStatus, req2, resp1, resp2, deploymentId>>

\* http.DefaultClient.Do for call 1 and the registration of the deferred close
Do1 ==
    /\ pc = "do1"
    /\ \/ /\ err' = "failed to send the request"
          /\ pc' = "exit"
          /\ trace' = Append(trace, Event("send", 1))
          /\ UNCHANGED resp1
       \/ \E st \in Statuses, b \in Bodies :
             /\ resp1' = [received |-> TRUE, status |-> st, body |-> b,
                          read |-> "unread", closed |-> FALSE, swapped |-> FALSE]
             /\ pc' = "dump1"
             /\ trace' = trace \o <<Event("send", 1), Event("recv", 1)>>
             /\ UNCHANGED err
    /\ UNCHANGED <<cfg, buildStatus, req1, req2, resp2, deploymentId, exitCode>>

\* the conditional httpDump of call 1; DumpResponse reads the whole body,
\* closes it and swaps in a copy, or fails when the body cannot be read and
\* leaves the received body open
Dump1 ==
    /\ pc = "dump1"
    /\ IF shouldDump(resp1, cfg.verbose)
       THEN \/ /\ resp1' = drainBody(resp1)
               /\ trace' = Append(trace, Event("dump", 1))
               /\ pc' = "check1"
               /\ UNCHANGED err
            \/ /\ resp1' = [resp1 EXCEPT !.read = "failed"]
               /\ err' = "unable to dump response"
               /\ pc' = "return1"
               /\ UNCHANGED trace
       ELSE /\ pc' = "check1"
            /\ UNCHANGED <<resp1, err, trace>>
    /\ UNCHANGED <<cfg, buildStatus, req1, req2, resp2, deploymentId, exitCode>>

\* the status check of call 1
Check1 ==
    /\ pc = "check1"
    /\ trace' = Append(trace, Event("eval", 1))
    /\ IF unexpectedStatus(resp1)
       THEN err' = "server error, unexpected status code" /\ pc' = "return1"
       ELSE pc' = "read1" /\ UNCHANGED err
    /\ UNCHANGED <<cfg, buildStatus, req1, req2, resp1, resp2, deploymentId, exitCode>>

\* ioutil.ReadAll, json.Unmarshal (its error is not looked at) and the print
\* of the identifier; after a dump the body is an in-memory copy and the read
\* cannot fail; a failed read reaches panic(err.Error()) with err nil
Read1 ==
    /\ pc = "read1"
    /\ \/ /\ resp1' = [resp1 EXCEPT !.read = "read"]
          /\ deploymentId' = jsonUnmarshal(resp1.body).Id
          /\ trace' = Append(trace, Event("id", 1))
          /\ pc' = "createDeploymentStatus"
          /\ UNCHANGED err
       \/ /\ ~resp1.swapped
          /\ resp1' = [resp1 EXCEPT !.read = "failed"]
          /\ err' = "panic: nil pointer dereference"
          /\ pc' = "return1"
          /\ UNCHANGED <<deploymentId, trace>>
    /\ UNCHANGED <<cfg, buildStatus, req1, req2, resp2, exitCode>>

\* createDeploymentStatus, up to the request being ready
CreateDeploymentStatus ==
    /\ pc = "createDeploymentStatus"
    /\ LET or == ownerAndRepo(cfg.repositoryURL)
       IN  IF or.panic
           THEN /\ err' = "panic: index out of range"
                /\ pc' = "return1"
                /\ UNCHANGED req2
           ELSE IF ~newRequestOK(cfg.apiURL)
           THEN /\ err' = "new request"
                /\ pc' = "return1"
                /\ UNCHANGED req2
           ELSE /\ req2' = [built |-> TRUE,
                            url |-> [base |-> cfg.apiURL, owner |-> or.owner,
                                     repo |-> or.repo, id |-> deploymentId,
                                     tail |-> "statuses"],
                            auth |-> cfg.authToken,
                            payload |-> [environment_url |-> cfg.buildURL,
                                         environment |-> "staging",
                                         state |-> getState(cfg.state, buildStatus),
                                         description |->
                                             getDescription(cfg.description, cfg.state,
                                                            buildStatus)]]
                /\ pc' = "do2"
                /\ UNCHANGED err
    /\ UNCHANGED <<cfg, buildStatus, req1, resp1, resp2, deploymentId, exitCode, trace>>

\* http.DefaultClient.Do for call 2 and the registration of the deferred close
Do2 ==
    /\ pc = "do2"
    /\ \/ /\ err' = "failed to send the request"
          /\ pc' = "return1"
          /\ trace' = Append(trace, Event("send", 2))
          /\ UNCHANGED resp2
       \/ \E st \in Statuses, b \in Bodies :
             /\ resp2' = [received |-> TRUE, status |-> st, body |-> b,
                          read |-> "unread", closed |-> FALSE, swapped |-> FALSE]
             /\ pc' = "dump2"
             /\ trace' = trace \o <<Event("send", 2), Event("recv", 2)>>
             /\ UNCHANGED err
    /\ UNCHANGED <<cfg, buildStatus, req1, req2, resp1, deploymentId, exitCode>>

\* the conditional httpDump of call 2
Dump2 ==
    /\ pc = "dump2"
    /\ IF shouldDump(resp2, cfg.verbose)
       THEN \/ /\ resp2' = drainBody(resp2)
               /\ trace' = Append(trace, Event("dump", 2))
               /\ pc' = "check2"
               /\ UNCHANGED err
            \/ /\ resp2' = [resp2 EXCEPT !.read = "failed"]
               /\ err' = "unable to dump response"
               /\ pc' = "return2"
               /\ UNCHANGED trace
       ELSE /\ pc' = "check2"
            /\ UNCHANGED <<resp2, err, trace>>
    /\ UNCHANGED <<cfg, buildStatus, req1, req2, resp1, deploymentId, exitCode>>

\* the status check of call 2; the body is not read here
Check2 ==
    /\ pc = "check2"
    /\ trace' = Append(trace, Event("eval", 2))
    /\ pc' = "return2"
    /\ IF unexpectedStatus(resp2)
       THEN err' = "server error, unexpected status code"
       ELSE UNCHANGED err
    /\ UNCHANGED <<cfg, buildStatus, req1, req2, resp1, resp2, deploymentId, exitCode>>

\* createDeploymentStatus returns: its deferred close runs
Return2 ==
    /\ pc = "return2"
    /\ resp2' = closeBody(resp2)
    /\ pc' = "return1"
    /\ UNCHANGED <<cfg, buildStatus, req1, req2, resp1, deploymentId, err, exitCode, trace>>

\* createDeployment returns or unwinds: its deferred close runs
Return1 ==
    /\ pc = "return1"
    /\ resp1' = closeBody(resp1)
    /\ pc' = "exit"
    /\ UNCHANGED <<cfg, buildStatus, req1, req2, resp2, deploymentId, err, exitCode, trace>>

\* the end of the process: an unrecovered panic ends it with code 2, an error
\* returned to main with os.Exit(1), a nil error with code 0
Exit ==
    /\ pc = "exit"
    /\ pc' = "done"
    /\ exitCode' = IF err \in Panics THEN 2 ELSE IF err # "nil" THEN 1 ELSE 0
    /\ trace' = IF err # "nil" THEN Append(trace, Event("stderr", 0)) ELSE trace
    /\ UNCHANGED <<cfg, buildStatus, req1, req2, resp1, resp2, deploymentId, err>>

Next ==
    \/ Main
    \/ CreateDeployment
    \/ Do1
    \/ Dump1
    \/ Check1
    \/ Read1
    \/ CreateDeploymentStatus
    \/ Do2
    \/ Dump2
    \/ Check2
    \/ Return2
    \/ Return1
    \/ Exit

Spec == Init /\ [][Next]_vars

SpecParser == InitParser /\ [][Next]_vars

(***************************************************************************)
(* Properties.                                                             *)
(***************************************************************************)
Happened(e, k) == \E i \in 1..Len(trace) : trace[i] = Event(e, k)

\* position of the first occurrence of an event that happened
IndexOf(e, k) == CHOOSE i \in 1..Len(trace) :
                    /\ trace[i] = Event(e, k)
                    /\ \A j \in 1..(i - 1) : trace[j] # Event(e, k)

\* C1: call 2 is sent only after call 1 has received a response with status
\* 201; when call 1 is not sent, fails to send or is answered with another
\* status, call 2 is never sent.
C1_Call2OnlyAfter201 ==
    /\ (req2.built \/ Happened("send", 2)) =>
          /\ resp1.received
          /\ resp1.status = 201
          /\ Happened("recv", 1)
    /\ Happened("send", 2) => IndexOf("recv", 1) < IndexOf("send", 2)
    /\ (pc = "done" /\ (~resp1.received \/ resp1.status # 201)) =>
          ~Happened("send", 2)

C1_Witness ==
    /\ pc = "done"
    /\ Happened("send", 2)
    /\ resp1.status = 201

\* C2: whenever call 2 is sent, the identifier in its URL is the integer id
\* field of the JSON body call 1 returned, and owner and repository are those
\* of call 1's URL.
C2_Call2UsesReturnedId ==
    Happened("send", 2) =>
        /\ resp1.body.kind = "object"
        /\ req2.url.id = resp1.body.id
        /\ req2.url.owner = req1.url.owner
        /\ req2.url.repo = req1.url.repo
        /\ req2.url.base = req1.url.base
        /\ req2.url.tail = "statuses"

\* C3: every run ends with exit code 0 or 1, and with 0 exactly when both
\* calls were answered with status 201.
C3_ExitZeroOrOne ==
    pc = "done" =>
        /\ exitCode \in {0, 1}
        /\ exitCode = 0 <=> (/\ resp1.received /\ resp1.status = 201
                             /\ resp2.received /\ resp2.status = 201)

\* C4: when call 1 is answered with 201 but its body cannot be read or does
\* not parse as JSON carrying an integer identifier, call 2 is not sent and
\* the run ends with a propagated error (exit code 1).
C4_BadBodyIsFatal ==
    (/\ resp1.received
     /\ resp1.status = 201
     /\ (resp1.read = "failed" \/ resp1.body.kind # "object")) =>
        /\ ~req2.built
        /\ ~Happened("send", 2)
        /\ pc = "done" => exitCode = 1

\* C5: a repository URL with fewer than three segments makes the parser fail
\* with the error "invalid repository URL" (exit code 1, no panic), and no
\* request is sent in that run.
C5_ShortURLExplicitError ==
    (/\ pc = "done"
     /\ ~configError(cfg)
     /\ Len(urlSegments(cfg.repositoryURL)) < 3) =>
        /\ err = "invalid repository URL"
        /\ exitCode = 1
        /\ ~Happened("send", 1)
        /\ ~Happened("send", 2)

ParserRule(hosts) ==
    \A h \in hosts, o \in Names, r \in Names :
        /\ (pc \notin {"main", "createDeployment"}
            /\ cfg.repositoryURL = HttpsURL(h, o, r)) =>
              (req1.built /\ req1.url.owner = o /\ req1.url.repo = r)
        /\ \A u \in Users :
              (pc \notin {"main", "createDeployment"}
               /\ cfg.repositoryURL = SshURL(u, h, o, r)) =>
                 (req1.built /\ req1.url.owner = o /\ req1.url.repo = r)

\* C6 as stated: for every URL https://host/OWNER/REPO.git and
\* user@host:OWNER/REPO.git with non-empty OWNER and REPO free of '/' and ':',
\* for any user and any host, ownerAndRepo returns (OWNER, REPO): once
\* createDeployment has passed the parser, call 1's URL carries exactly that
\* owner and repository.
C6_ParserAnyHost == ParserRule(Hosts)

\* C6 amended: the same, for any user free of '/' and ':' and any host that
\* is a plain host name (non-empty, free of '/', ':' and '@', so without a
\* port).
C6_ParserReturnsOwnerAndRepo == ParserRule(PlainHosts)

C6_Witness ==
    /\ req1.built
    /\ cfg.repositoryURL = SshURL(<<"b">>, <<"g", ".", "h">>, <<"a">>, DotGit)
    /\ req1.url.repo = DotGit

\* C7: the state sent in call 2 is the preset unchanged for every preset but
\* "auto"; for "auto" it is "success" when the build-status signal is "0" and
\* "failure" for every other value of the signal, unset included.
C7_Call2StateIsResolved ==
    req2.built =>
        req2.payload.state =
            IF cfg.state # "auto" THEN cfg.state
            ELSE IF buildStatus = "0" THEN "success" ELSE "failure"

C7_Witness ==
    /\ Happened("send", 2)
    /\ cfg.state = "auto"
    /\ buildStatus = ""
    /\ req2.payload.state = "failure"

\* C8: when the configured description is empty, the description in both
\* calls' payloads is the title-cased resolved state, and so is never empty.
C8_EmptyDescriptionIsTitledState ==
    /\ (req1.built /\ cfg.description = "") =>
          /\ req1.payload.description = Title(getState(cfg.state, buildStatus))
          /\ req1.payload.description # ""
    /\ (req2.built /\ cfg.description = "") =>
          /\ req2.payload.description = Title(getState(cfg.state, buildStatus))
          /\ req2.payload.description # ""

DumpRule(resp, k, verbose) ==
    /\ Happened("dump", k) <=> (resp.status # 201 \/ verbose)
    /\ (Happened("dump", k) /\ Happened("eval", k)) =>
          IndexOf("dump", k) < IndexOf("eval", k)

\* C9 as stated: for each call that received a response, the dump is printed
\* if and only if the status is not 201 or verbose is set, and before the
\* status is evaluated.
C9_DumpIffNon201OrVerbose ==
    /\ (resp1.received /\ pc # "dump1") => DumpRule(resp1, 1, cfg.verbose)
    /\ (resp2.received /\ pc # "dump2") => DumpRule(resp2, 2, cfg.verbose)

DumpRuleAmended(resp, k, verbose) ==
    /\ Happened("dump", k) => (resp.status # 201 \/ verbose)
    /\ Happened("eval", k) =>
          /\ Happened("dump", k) <=> (resp.status # 201 \/ verbose)
          /\ Happened("dump", k) => IndexOf("dump", k) < IndexOf("eval", k)
    /\ ((resp.status # 201 \/ verbose) /\ ~Happened("dump", k)) =>
          /\ err = "unable to dump response"
          /\ resp.read = "failed"
          /\ ~Happened("eval", k)
          /\ pc = "done" => exitCode = 1

\* C9 amended: the dump is attempted if and only if the status is not 201 or
\* verbose is set; when it can be produced it is printed before the status is
\* evaluated; when it cannot, nothing is printed, the status is not evaluated
\* and the run ends with the dump error and exit code 1.
C9_DumpUnlessDumpFails ==
    /\ (resp1.received /\ pc # "dump1") => DumpRuleAmended(resp1, 1, cfg.verbose)
    /\ (resp2.received /\ pc # "dump2") => DumpRuleAmended(resp2, 2, cfg.verbose)

C9_Witness ==
    /\ pc = "done"
    /\ resp2.received
    /\ resp2.status = 201
    /\ cfg.verbose
    /\ ~Happened("dump", 2)
    /\ Happened("dump", 1)

\* C10 as stated: at process exit every response received has had its body
\* read (to its end or to a read error) and then closed.
C10_BodiesReadAndClosed ==
    pc = "done" =>
        /\ resp1.received => (resp1.read # "unread" /\ resp1.closed)
        /\ resp2.received => (resp2.read # "unread" /\ resp2.closed)

\* C10 amended: at process exit every response received has its body closed,
\* on every path; call 1's body has been read before it is closed; call 2's
\* body has been read exactly when its dump was attempted (status not 201 or
\* verbose set) and is otherwise closed unread.  A body is closed either by
\* the dump that has just read it or by the deferred close when the function
\* that received it returns, never while it is still to be read.
C10_BodiesClosed ==
    /\ pc = "done" =>
          /\ resp1.received => (resp1.read # "unread" /\ resp1.closed)
          /\ resp2.received =>
                /\ resp2.closed
                /\ resp2.read # "unread" <=> (resp2.status # 201 \/ cfg.verbose)
    /\ (resp1.received /\ resp1.closed) =>
          /\ resp1.read # "unread"
          /\ Happened("dump", 1) \/ pc \in {"exit", "done"}
    /\ (resp2.received /\ resp2.closed) =>
          Happened("dump", 2) \/ pc \in {"return1", "exit", "done"}
    /\ (resp1.received /\ Happened("dump", 1)) => (resp1.closed /\ resp1.swapped)
    /\ (resp2.received /\ Happened("dump", 2)) => (resp2.closed /\ resp2.swapped)

C10_Witness ==
    /\ pc = "done"
    /\ exitCode = 0
    /\ resp1.closed
    /\ resp2.closed
    /\ resp2.read = "unread"

====
